---- MODULE Spec2Model ----
(***************************************************************************)
(* A model of the plant-care assistant's request layer and of the two      *)
(* views that drive it:                                                    *)
(*   - services/geminiService (src/components/Sidebar.tsx, lines 441-751): *)
(*     five analysis functions, three chat functions, translateText;       *)
(*   - the Weather view (src/components/Sidebar.tsx, lines 151-438);       *)
(*   - the NutrientAnalyzer view (src/unnamed/part_000).                   *)
(* The remote generative service is the environment: every reply it can    *)
(* give is drawn from a finite set of sample replies.                      *)
(***************************************************************************)
EXTENDS Integers, Sequences, FiniteSets

(***************************************************************************)
(* Bounds of the model.                                                    *)
(***************************************************************************)
\* file selections made in the NutrientAnalyzer view
MaxUploads == 2
\* searches and location lookups started in the Weather view
MaxSearches == 2
\* direct invocations of the service functions
MaxInvocations == 3

(***************************************************************************)
(* JavaScript values.  An object is a set of <<key, value>> pairs; leaves  *)
(* are tagged records.                                                     *)
(***************************************************************************)
JNull == [type |-> "null"]

JUndefined == [type |-> "undefined"]

JObj(kv) == [type |-> "object", kv |-> kv]

JStr(s) == [type |-> "string", s |-> s]

JNum(n) == [type |-> "number", n |-> n]

JArr(a) == [type |-> "array", a |-> a]

Keys(v) == IF v.type = "object" THEN {p[1] : p \in v.kv} ELSE {}

\* property access `v.k` / `v?.k` on a value that is not null or undefined
\* (and `v?.k` on one that is): the member, or undefined
Get(v, k) ==
  IF v.type = "object" /\ k \in Keys(v)
    THEN (CHOOSE p \in v.kv : p[1] = k)[2]
    ELSE JUndefined

\* JavaScript truthiness, as used by `!text`, `!data`, `if (data)`, `a || b`
Truthy(v) ==
  CASE v.type = "null" -> FALSE
    [] v.type = "undefined" -> FALSE
    [] v.type = "string" -> v.s # ""
    [] v.type = "number" -> v.n # 0
    [] OTHER -> TRUE

(***************************************************************************)
(* Sample gateway texts and what JSON.parse makes of them.                 *)
(***************************************************************************)
TruncatedText == "{\"healthScore\":45,\"defic"

ProseText == "Sorry, I cannot analyse this image."

NutrientFullText == "{\"healthScore\":45,\"deficiencies\":[\"Nitrogen\"],\"symptoms\":[\"yellowing leaves\"],\"recommendations\":[\"apply nitrogen-rich fertilizer\"]}"

NutrientPartialText == "{\"healthScore\":45}"

NutrientNoneText == "{\"healthScore\":83,\"deficiencies\":[\"None\"],\"symptoms\":[],\"recommendations\":[\"keep watering\"]}"

NutrientHighText == "{\"healthScore\":150,\"deficiencies\":[\"None\"],\"symptoms\":[],\"recommendations\":[]}"

NutrientNegativeText == "{\"healthScore\":-5,\"deficiencies\":[\"Nitrogen\",\"None\"],\"symptoms\":[\"necrosis\"],\"recommendations\":[]}"

DiseaseFullText == "{\"plantName\":\"Tomato\",\"diseaseName\":\"Early blight\",\"severity\":\"Medium\",\"symptoms\":[\"leaf spots\"],\"cures\":{\"organic\":[\"neem oil\"],\"chemical\":[\"chlorothalonil\"]},\"purchaseLinks\":[{\"pesticideName\":\"chlorothalonil\",\"url\":\"https://shop.example/c\"}],\"prevention\":[\"rotate crops\"]}"

DiseasePartialText == "{\"plantName\":\"Tomato\"}"

SoilFullText == "{\"phValue\":\"6.5\",\"nitrogen\":\"Low\",\"phosphorus\":\"N/A\",\"potassium\":\"High\",\"organicMatter\":\"2%\",\"suitableCrops\":[\"Okra\"],\"improvementTips\":[]}"

SoilPartialText == "{\"phValue\":\"6.5\"}"

SeedFullText == "{\"seedName\":\"Okra seed\",\"plantName\":\"Okra\",\"description\":\"round, dark\",\"cultivationPlaces\":[\"India\"],\"bestSoil\":\"loam\",\"growthTips\":[\"soak overnight\"]}"

SeedPartialText == "{\"seedName\":\"Okra seed\"}"

WeatherFullText == "{\"locationName\":\"Kochi, Kerala\",\"current\":{\"temp\":\"30C\",\"condition\":\"Rainy\",\"humidity\":\"80%\",\"wind\":\"10 km/h\"},\"forecast\":[{\"day\":\"Mon\",\"temp\":\"29C\",\"condition\":\"Rainy\"},{\"day\":\"Tue\",\"temp\":\"30C\",\"condition\":\"Cloudy\"},{\"day\":\"Wed\",\"temp\":\"31C\",\"condition\":\"Sunny\"}],\"risks\":{\"floodProbability\":\"High\",\"cycloneProbability\":\"Low\",\"details\":\"heavy rain\"},\"farmingTip\":\"delay sowing\"}"

WeatherOtherText == "{\"locationName\":\"Delhi\",\"current\":{\"temp\":\"40C\",\"condition\":\"Sunny\",\"humidity\":\"20%\",\"wind\":\"5 km/h\"},\"forecast\":[{\"day\":\"Mon\",\"temp\":\"41C\",\"condition\":\"Sunny\"},{\"day\":\"Tue\",\"temp\":\"41C\",\"condition\":\"Sunny\"},{\"day\":\"Wed\",\"temp\":\"42C\",\"condition\":\"Sunny\"}],\"risks\":{\"floodProbability\":\"Low\",\"cycloneProbability\":\"Low\",\"details\":\"none\"},\"farmingTip\":\"irrigate early\"}"

WeatherPartialText == "{\"locationName\":\"Kochi, Kerala\"}"

Forecast(d, t, c) == JObj({<<"day", JStr(d)>>, <<"temp", JStr(t)>>, <<"condition", JStr(c)>>})

ParsedValue(text) ==
  CASE text = "null" -> JNull
    [] text = "{}" -> JObj({})
    [] text = NutrientPartialText -> JObj({<<"healthScore", JNum(45)>>})
    [] text = NutrientFullText ->
         JObj({<<"healthScore", JNum(45)>>,
               <<"deficiencies", JArr(<<JStr("Nitrogen")>>)>>,
               <<"symptoms", JArr(<<JStr("yellowing leaves")>>)>>,
               <<"recommendations", JArr(<<JStr("apply nitrogen-rich fertilizer")>>)>>})
    [] text = NutrientNoneText ->
         JObj({<<"healthScore", JNum(83)>>,
               <<"deficiencies", JArr(<<JStr("None")>>)>>,
               <<"symptoms", JArr(<<>>)>>,
               <<"recommendations", JArr(<<JStr("keep watering")>>)>>})
    [] text = NutrientHighText ->
         JObj({<<"healthScore", JNum(150)>>,
               <<"deficiencies", JArr(<<JStr("None")>>)>>,
               <<"symptoms", JArr(<<>>)>>,
               <<"recommendations", JArr(<<>>)>>})
    [] text = NutrientNegativeText ->
         JObj({<<"healthScore", JNum(-5)>>,
               <<"deficiencies", JArr(<<JStr("Nitrogen"), JStr("None")>>)>>,
               <<"symptoms", JArr(<<JStr("necrosis")>>)>>,
               <<"recommendations", JArr(<<>>)>>})
    [] text = DiseasePartialText -> JObj({<<"plantName", JStr("Tomato")>>})
    [] text = DiseaseFullText ->
         JObj({<<"plantName", JStr("Tomato")>>,
               <<"diseaseName", JStr("Early blight")>>,
               <<"severity", JStr("Medium")>>,
               <<"symptoms", JArr(<<JStr("leaf spots")>>)>>,
               <<"cures", JObj({<<"organic", JArr(<<JStr("neem oil")>>)>>,
                                <<"chemical", JArr(<<JStr("chlorothalonil")>>)>>})>>,
               <<"purchaseLinks",
                 JArr(<<JObj({<<"pesticideName", JStr("chlorothalonil")>>,
                              <<"url", JStr("https://shop.example/c")>>})>>)>>,
               <<"prevention", JArr(<<JStr("rotate crops")>>)>>})
    [] text = SoilPartialText -> JObj({<<"phValue", JStr("6.5")>>})
    [] text = SoilFullText ->
         JObj({<<"phValue", JStr("6.5")>>,
               <<"nitrogen", JStr("Low")>>,
               <<"phosphorus", JStr("N/A")>>,
               <<"potassium", JStr("High")>>,
               <<"organicMatter", JStr("2%")>>,
               <<"suitableCrops", JArr(<<JStr("Okra")>>)>>,
               <<"improvementTips", JArr(<<>>)>>})
    [] text = SeedPartialText -> JObj({<<"seedName", JStr("Okra seed")>>})
    [] text = SeedFullText ->
         JObj({<<"seedName", JStr("Okra seed")>>,
               <<"plantName", JStr("Okra")>>,
               <<"description", JStr("round, dark")>>,
               <<"cultivationPlaces", JArr(<<JStr("India")>>)>>,
               <<"bestSoil", JStr("loam")>>,
               <<"growthTips", JArr(<<JStr("soak overnight")>>)>>})
    [] text = WeatherPartialText -> JObj({<<"locationName", JStr("Kochi, Kerala")>>})
    [] text = WeatherFullText ->
         JObj({<<"locationName", JStr("Kochi, Kerala")>>,
               <<"current", JObj({<<"temp", JStr("30C")>>,
                                  <<"condition", JStr("Rainy")>>,
                                  <<"humidity", JStr("80%")>>,
                                  <<"wind", JStr("10 km/h")>>})>>,
               <<"forecast", JArr(<<Forecast("Mon", "29C", "Rainy"),
                                    Forecast("Tue", "30C", "Cloudy"),
                                    Forecast("Wed", "31C", "Sunny")>>)>>,
               <<"risks", JObj({<<"floodProbability", JStr("High")>>,
                                <<"cycloneProbability", JStr("Low")>>,
                                <<"details", JStr("heavy rain")>>})>>,
               <<"farmingTip", JStr("delay sowing")>>})
    [] text = WeatherOtherText ->
         JObj({<<"locationName", JStr("Delhi")>>,
               <<"current", JObj({<<"temp", JStr("40C")>>,
                                  <<"condition", JStr("Sunny")>>,
                                  <<"humidity", JStr("20%")>>,
                                  <<"wind", JStr("5 km/h")>>})>>,
               <<"forecast", JArr(<<Forecast("Mon", "41C", "Sunny"),
                                    Forecast("Tue", "41C", "Sunny"),
                                    Forecast("Wed", "42C", "Sunny")>>)>>,
               <<"risks", JObj({<<"floodProbability", JStr("Low")>>,
                                <<"cycloneProbability", JStr("Low")>>,
                                <<"details", JStr("none")>>})>>,
               <<"farmingTip", JStr("irrigate early")>>})

ValidJsonTexts ==
  {"null", "{}", NutrientPartialText, NutrientFullText, NutrientNoneText,
   NutrientHighText, NutrientNegativeText, DiseasePartialText,
   DiseaseFullText, SoilPartialText, SoilFullText, SeedPartialText, SeedFullText,
   WeatherPartialText, WeatherFullText, WeatherOtherText}

\* JSON.parse: a value, or a SyntaxError for text that is not JSON
JSONParse(text) ==
  IF text \in ValidJsonTexts
    THEN [ok |-> TRUE, value |-> ParsedValue(text)]
    ELSE [ok |-> FALSE, error |-> "SyntaxError"]

(***************************************************************************)
(* The gateway: what ai.models.generateContent / chat.sendMessage can      *)
(* answer.  A reply is a rejection, or a response with .text (a string or  *)
(* undefined) and candidates[0].groundingMetadata (an object or undefined).*)
(***************************************************************************)
Rejected == [status |-> "rejected", error |-> "NetworkError"]

Resolved(text, gm) == [status |-> "resolved", text |-> text, groundingMetadata |-> gm]

Chunk(uri, title) ==
  JObj({<<"web", JObj((IF uri = "" THEN {} ELSE {<<"uri", JStr(uri)>>})
                      \cup (IF title = "" THEN {} ELSE {<<"title", JStr(title)>>}))>>})

GroundingA ==
  JObj({<<"groundingChunks",
          JArr(<<Chunk("https://weather.example/kochi", "Kochi weather"),
                 Chunk("", "No link")>>)>>})

GroundingB ==
  JObj({<<"groundingChunks", JArr(<<Chunk("https://met.example/delhi", "")>>)>>})

\* three chunks: a link without title, a chunk without `web`, a link with title
GroundingC ==
  JObj({<<"groundingChunks",
          JArr(<<Chunk("https://met.example/delhi", ""),
                 JObj({}),
                 Chunk("https://weather.example/kochi", "Kochi weather")>>)>>})

\* a link that is not an absolute URL and has no title, then a chunk without link
GroundingD ==
  JObj({<<"groundingChunks",
          JArr(<<Chunk("met.example/delhi", ""), Chunk("", "No link")>>)>>})

\* replies common to the four image analyses
CommonReplies ==
  {Rejected,
   Resolved(JUndefined, JUndefined),
   Resolved(JStr(""), JUndefined),
   Resolved(JStr(TruncatedText), JUndefined),
   Resolved(JStr(ProseText), JUndefined),
   Resolved(JStr("null"), JUndefined),
   Resolved(JStr("{}"), JUndefined)}

FullText(kind) ==
  CASE kind = "disease" -> DiseaseFullText
    [] kind = "soil" -> SoilFullText
    [] kind = "seed" -> SeedFullText
    [] kind = "nutrient" -> NutrientFullText
    [] kind = "weather" -> WeatherFullText

PartialText(kind) ==
  CASE kind = "disease" -> DiseasePartialText
    [] kind = "soil" -> SoilPartialText
    [] kind = "seed" -> SeedPartialText
    [] kind = "nutrient" -> NutrientPartialText
    [] kind = "weather" -> WeatherPartialText

ImageReplies(kind) ==
  CommonReplies \cup {Resolved(JStr(PartialText(kind)), JUndefined),
                      Resolved(JStr(FullText(kind)), JUndefined)}

\* the replies drawn for a call made by the NutrientAnalyzer view: one for each
\* way through analyzePlantNutrients and performAnalysis, two for the ways that
\* end in a parse failure and in a result
NutrientViewReplies ==
  {Rejected,
   Resolved(JUndefined, JUndefined),
   Resolved(JStr(TruncatedText), JUndefined),
   Resolved(JStr(ProseText), JUndefined),
   Resolved(JStr("null"), JUndefined),
   Resolved(JStr("{}"), JUndefined),
   Resolved(JStr(NutrientFullText), JUndefined)}

\* nutrient replies with the "None" sentinel and with scores in and out of 0..100
NutrientEdgeReplies ==
  {Resolved(JStr(NutrientNoneText), JUndefined),
   Resolved(JStr(NutrientHighText), JUndefined),
   Resolved(JStr(NutrientNegativeText), JUndefined)}

\* the replies drawn for a direct invocation of an image analysis
DirectReplies(kind) ==
  ImageReplies(kind) \cup (IF kind = "nutrient" THEN NutrientEdgeReplies ELSE {})

WeatherReplies ==
  CommonReplies \cup {Resolved(JStr(WeatherPartialText), GroundingA),
                      Resolved(JStr(WeatherFullText), GroundingA),
                      Resolved(JStr(WeatherFullText), JUndefined),
                      Resolved(JStr(WeatherOtherText), GroundingB),
                      Resolved(JStr(WeatherFullText), GroundingC),
                      Resolved(JStr(WeatherOtherText), GroundingD),
                      Resolved(JUndefined, GroundingB)}

ChatReplies ==
  {Rejected, Resolved(JUndefined, JUndefined), Resolved(JStr(""), JUndefined),
   Resolved(JStr("Water it weekly."), JUndefined)}

AnalysisKinds == {"disease", "soil", "seed", "nutrient", "weather"}

ImageKinds == {"disease", "soil", "seed", "nutrient"}

ChatFns == {"chatWithBotanist", "chatWithGardenMaster", "chatWithSoilExpert"}

\* the required top-level fields of each kind's schema, as the prompt embeds it
RequiredFields(kind) ==
  CASE kind = "disease" ->
         {"plantName", "diseaseName", "severity", "symptoms", "cures",
          "purchaseLinks", "prevention"}
    [] kind = "soil" ->
         {"phValue", "nitrogen", "phosphorus", "potassium", "organicMatter",
          "suitableCrops", "improvementTips"}
    [] kind = "seed" ->
         {"seedName", "plantName", "description", "cultivationPlaces", "bestSoil",
          "growthTips"}
    [] kind = "nutrient" ->
         {"healthScore", "deficiencies", "symptoms", "recommendations"}
    [] kind = "weather" ->
         {"locationName", "current", "forecast", "risks", "farmingTip"}

(***************************************************************************)
(* services/geminiService.  A function's outcome is a return or a throw,   *)
(* together with what it wrote to the console.                             *)
(***************************************************************************)
Return(v, log) == [threw |-> FALSE, value |-> v, console |-> log]

Throw(e, log) == [threw |-> TRUE, error |-> e, console |-> log]

\* the object with member k set to x
Put(v, k, x) == JObj({p \in v.kv : p[1] # k} \cup {<<k, x>>})

\* a score brought into 0..100
Clamp(v) ==
  IF v.type # "number" THEN v
  ELSE IF v.n < 0 THEN JNum(0) ELSE IF v.n > 100 THEN JNum(100) ELSE v

\* a sole "None" entry turned into no entry
DropSentinel(v) == IF v = JArr(<<JStr("None")>>) THEN JArr(<<>>) ELSE v

\* a parser that tidies the record it parsed
ParseOrThrowNormalising(logMessage, reply) ==
  IF reply.status = "rejected"
    THEN Throw(reply.error, <<>>)
    ELSE IF ~Truthy(reply.text)
      THEN Throw("No response from AI", <<>>)
      ELSE LET parsed == JSONParse(reply.text.s)
           IN  IF ~parsed.ok
                 THEN Throw("Invalid response format from AI",
                            << <<logMessage, reply.text.s>> >>)
                 ELSE IF {"healthScore", "deficiencies"} \subseteq Keys(parsed.value)
                   THEN Return(Put(Put(parsed.value, "healthScore",
                                       Clamp(Get(parsed.value, "healthScore"))),
                                   "deficiencies",
                                   DropSentinel(Get(parsed.value, "deficiencies"))),
                               <<>>)
                   ELSE Return(parsed.value, <<>>)

\* a parser that answers a syntax error with a best-effort empty object
ParseOrThrowBestEffort(logMessage, reply) ==
  IF reply.status = "rejected"
    THEN Throw(reply.error, <<>>)
    ELSE IF ~Truthy(reply.text)
      THEN Throw("No response from AI", <<>>)
      ELSE LET parsed == JSONParse(reply.text.s)
           IN  IF parsed.ok
                 THEN Return(parsed.value, <<>>)
                 ELSE Return(JObj({}), << <<logMessage, reply.text.s>> >>)

\* the tail shared by the four image analyses: `if (!text) throw`, then
\* `try { return JSON.parse(text) } catch { console.error; throw }`
ParseOrThrow(logMessage, reply) ==
  IF reply.status = "rejected"
    THEN Throw(reply.error, <<>>)
    ELSE IF ~Truthy(reply.text)
      THEN Throw("No response from AI", <<>>)
      ELSE LET parsed == JSONParse(reply.text.s)
           IN  IF parsed.ok
                 THEN Return(parsed.value, <<>>)
                 ELSE Throw("Invalid response format from AI",
                            << <<logMessage, reply.text.s>> >>)

ImageRequest(prompt, systemInstruction, base64Image) ==
  [api |-> "models.generateContent",
   model |-> "gemini-3-flash-preview",
   parts |-> << [inlineData |-> [mimeType |-> "image/jpeg", data |-> base64Image]],
                [text |-> prompt] >>,
   systemInstruction |-> systemInstruction,
   responseMimeType |-> "application/json"]

analyzePlantImage(reply) == ParseOrThrow("Failed to parse AI response:", reply)

analyzeSoilReport(reply) == ParseOrThrow("Failed to parse soil report:", reply)

analyzeSeedImage(reply) == ParseOrThrow("Failed to parse seed report:", reply)

analyzePlantNutrients(reply) == ParseOrThrow("Failed to parse nutrient report:", reply)

\* a weather function that hands on the record without its forecast
getWeatherDetailsWithoutForecast(reply) ==
  IF reply.status = "rejected"
    THEN Throw(reply.error, <<>>)
    ELSE LET text == IF Truthy(reply.text) THEN reply.text.s ELSE "{}"
             parsed == JSONParse(text)
         IN  Return([data |-> IF parsed.ok
                                THEN IF parsed.value.type = "object"
                                       THEN JObj({p \in parsed.value.kv : p[1] # "forecast"})
                                       ELSE parsed.value
                                ELSE JNull,
                     groundingMetadata |-> reply.groundingMetadata],
                    IF parsed.ok
                      THEN <<>>
                      ELSE << <<"Failed to parse weather JSON", parsed.error>> >>)

getWeatherDetails(reply) ==
  IF reply.status = "rejected"
    THEN Throw(reply.error, <<>>)
    ELSE LET text == IF Truthy(reply.text) THEN reply.text.s ELSE "{}"
             parsed == JSONParse(text)
         IN  Return([data |-> IF parsed.ok THEN parsed.value ELSE JNull,
                     groundingMetadata |-> reply.groundingMetadata],
                    IF parsed.ok
                      THEN <<>>
                      ELSE << <<"Failed to parse weather JSON", parsed.error>> >>)

WeatherRequest(location) ==
  [api |-> "models.generateContent",
   model |-> "gemini-3-flash-preview",
   contents |-> <<"weather prompt for", location>>,
   tools |-> <<"googleSearch">>,
   responseMimeType |-> "application/json"]

\* the request an analysis function builds from its argument
AnalysisRequest(kind, arg) ==
  CASE kind = "disease" -> ImageRequest("disease prompt", "SYSTEM_INSTRUCTION", arg)
    [] kind = "soil" -> ImageRequest("soil prompt", "SOIL_ANALYSER_INSTRUCTION", arg)
    [] kind = "seed" -> ImageRequest("seed prompt", "SEED_ANALYSER_INSTRUCTION", arg)
    [] kind = "nutrient" ->
         ImageRequest("nutrient prompt", "NUTRIENT_ANALYSER_INSTRUCTION", arg)
    [] kind = "weather" -> WeatherRequest(arg)

FnName(kind) ==
  CASE kind = "disease" -> "analyzePlantImage"
    [] kind = "soil" -> "analyzeSoilReport"
    [] kind = "seed" -> "analyzeSeedImage"
    [] kind = "nutrient" -> "analyzePlantNutrients"
    [] kind = "weather" -> "getWeatherDetails"

\* the outcome of an analysis function, given the gateway's reply
Analyze(kind, reply) ==
  CASE kind = "disease" -> analyzePlantImage(reply)
    [] kind = "soil" -> analyzeSoilReport(reply)
    [] kind = "seed" -> analyzeSeedImage(reply)
    [] kind = "nutrient" -> analyzePlantNutrients(reply)
    [] kind = "weather" -> getWeatherDetails(reply)

\* ai.chats.create({model, config}): a new session; no history is passed to it
ChatCreate(systemInstruction) ==
  [model |-> "gemini-3-flash-preview",
   systemInstruction |-> systemInstruction,
   history |-> <<>>]

\* chat.sendMessage({message}): the session's turns, then the new user turn
SendMessageRequest(chat, message) ==
  [api |-> "chats.sendMessage",
   model |-> chat.model,
   systemInstruction |-> chat.systemInstruction,
   contents |-> chat.history \o <<[role |-> "user", text |-> message]>>]

PersonaInstruction(fn) ==
  CASE fn = "chatWithBotanist" -> "SYSTEM_INSTRUCTION"
    [] fn = "chatWithGardenMaster" -> "GARDENING_MASTER_INSTRUCTION"
    [] fn = "chatWithSoilExpert" -> "SOIL_EXPERT_CHAT_INSTRUCTION"

\* no chat session has been created yet
NoSession == [model |-> "none", systemInstruction |-> "none", history |-> <<>>]

\* a chat function that goes on with the session its persona used last
ChatSessionResumed(fn, prior) ==
  IF prior.systemInstruction = PersonaInstruction(fn)
    THEN prior
    ELSE ChatCreate(PersonaInstruction(fn))

\* `const chat = ai.chats.create({...})`: the session a chat function sends
\* through is local to the invocation; `prior`, the session an earlier
\* invocation created, is not reachable from it
ChatSessionFor(fn, prior) == ChatCreate(PersonaInstruction(fn))

\* the request one chat turn sends: the history argument is not used
ChatRequest(fn, history, newMessage, prior) ==
  SendMessageRequest(ChatSessionFor(fn, prior), newMessage)

\* the session object once sendMessage has settled: the SDK records the turn
\* and the answer in it when the call resolved
SessionAfter(chat, message, reply) ==
  IF reply.status = "resolved"
    THEN [chat EXCEPT !.history = @ \o <<[role |-> "user", text |-> message],
                                          [role |-> "model", text |-> reply.text]>>]
    ELSE chat

\* `return response.text` after the awaited call
ReturnText(reply) ==
  IF reply.status = "rejected"
    THEN Throw(reply.error, <<>>)
    ELSE Return(reply.text, <<>>)

TranslateRequest(text, targetLanguage) ==
  [api |-> "models.generateContent",
   model |-> "gemini-3-flash-preview",
   contents |-> <<"translate into", targetLanguage, text>>]

\* one more attempt after a rejected call
RetriesAfterRejection(reply) == IF reply.status = "rejected" THEN 1 ELSE 0

\* extra requests issued after the first reply: the functions and the views
\* have no retry path
RetriesAfter(reply) == 0

(***************************************************************************)
(* State.                                                                  *)
(***************************************************************************)
VARIABLES
  view,               \* the mounted view (Sidebar's currentView)
  lastCall,           \* the service-function invocation that settled last
  requests,           \* outbound gateway requests issued so far
  invocations,        \* service-function invocations started so far
  userActions,        \* user actions that started an analysis or a chat turn
  chatSessions,       \* chat sessions created so far, and the last one as its use left it
  lastOp,             \* the handler that ran last
  \* NutrientAnalyzer
  isAnalyzing, result, currentImage, error, initialData,
  history,            \* the parent's list behind onAddToHistory
  reading,            \* FileReaders that have not fired onloadend yet
  calls,              \* outstanding analyzePlantNutrients calls
  \* Weather
  city, weatherData, groundingMetadata, loading, weatherError,
  geoSupported,       \* whether navigator.geolocation exists
  geoPending,         \* a getCurrentPosition request awaits its callback
  weatherCalls        \* outstanding getWeatherDetails calls

serviceVars == <<lastCall, requests, invocations, userActions, chatSessions>>

nutrientVars ==
  <<isAnalyzing, result, currentImage, error, initialData, history, reading, calls>>

weatherVars ==
  <<city, weatherData, groundingMetadata, loading, weatherError, geoSupported,
    geoPending, weatherCalls>>

vars == <<view, lastOp, serviceVars, nutrientVars, weatherVars>>

Views == {"nutrient-analyzer", "weather", "other"}

(***************************************************************************)
(* Inputs.                                                                 *)
(***************************************************************************)
Files == {"leafA.jpg", "leafB.jpg"}

\* FileReader.readAsDataURL
ReadAsDataURL(file) ==
  CASE file = "leafA.jpg" -> "data:image/jpeg;base64,QUFB"
    [] file = "leafB.jpg" -> "data:image/jpeg;base64,QkJC"

\* String.prototype.split(',')
SplitComma(str) ==
  CASE str = "data:image/jpeg;base64,QUFB" -> <<"data:image/jpeg;base64", "QUFB">>
    [] str = "data:image/jpeg;base64,QkJC" -> <<"data:image/jpeg;base64", "QkJC">>

\* `(reader.result as string).split(',')[1]` (JavaScript indexes from 0)
Base64Of(file) == SplitComma(ReadAsDataURL(file))[1 + 1]

Base64Images == {Base64Of(f) : f \in Files}

Turn(role, text) == [role |-> role, text |-> text]

ChatHistories ==
  {<<>>,
   <<Turn("user", "My okra has spots"), Turn("model", "Likely leaf spot.")>>}

ChatMessages == {"How often should I water?", "Which fertilizer?"}

TranslateTexts == {"**Water** weekly"}

TargetLanguages == {"Hindi", "Malayalam"}

TypedCities == {"", "  ", "Kochi"}

DetectingLabel == "Detecting location..."

Positions == {[latitude |-> "9.9312", longitude |-> "76.2673"]}

\* `Current Location (${latitude.toFixed(2)}, ${longitude.toFixed(2)})`
LocationLabel(position) ==
  CASE position = [latitude |-> "9.9312", longitude |-> "76.2673"] ->
         "Current Location (9.93, 76.27)"

\* `latitude ${latitude}, longitude ${longitude}`
LocationQuery(position) ==
  CASE position = [latitude |-> "9.9312", longitude |-> "76.2673"] ->
         "latitude 9.9312, longitude 76.2673"

\* String.prototype.trim
Trim(str) ==
  CASE str = "  " -> ""
    [] OTHER -> str

HistoryItem(id, imageUrl, nutrientData) ==
  [id |-> id,
   type |-> "nutrient-analysis",
   plantName |-> "Plant Nutrient Check",
   imageUrl |-> imageUrl,
   nutrientData |-> nutrientData]

\* values the parent can pass as the initialData prop
InitialDataSamples ==
  {JNull,
   [id |-> 90, type |-> "disease", plantName |-> "Tomato",
    imageUrl |-> JStr("RERE"), nutrientData |-> JUndefined],
   [id |-> 91, type |-> "nutrient-analysis", plantName |-> "Plant Nutrient Check",
    imageUrl |-> JStr("RUVF"), nutrientData |-> JUndefined],
   HistoryItem(92, JStr("RkZG"), ParsedValue(NutrientFullText)),
   HistoryItem(93, JUndefined, ParsedValue(NutrientPartialText))}

(***************************************************************************)
(* NutrientAnalyzer (src/unnamed/part_000).                                *)
(***************************************************************************)
AnalyzeFailedMessage ==
  "Failed to analyze nutrients. Please ensure the plant leaf is clearly visible."

\* the condition of useEffect's body
ShouldRestore(d) ==
  Truthy(d) /\ d.type = "nutrient-analysis" /\ Truthy(d.nutrientData)

\* the image taken as it is in the item
RestoredImageRaw(d) == d.imageUrl

\* `initialData.imageUrl || null`
RestoredImage(d) == IF Truthy(d.imageUrl) THEN d.imageUrl ELSE JNull

\* the upload control is rendered when `!result && !isAnalyzing && !error`
UploadPanelShown == ~Truthy(result) /\ ~isAnalyzing /\ ~Truthy(error)

\* performAnalysis without its `if (!data) throw`
AnalysisSucceededUnchecked(outcome) == ~outcome.threw

\* performAnalysis reaches setResult: the call returned and `!data` is false
AnalysisSucceeded(outcome) == ~outcome.threw /\ Truthy(outcome.value)

\* what performAnalysis' catch block receives: the rejection or the error of
\* analyzePlantNutrients, or the error of `if (!data) throw`
CaughtError(outcome) ==
  IF outcome.threw THEN outcome.error ELSE "Nutrient analysis returned empty data."

\* a catch block that shows what it caught
CatchMessageWithCause(err) ==
  [type |-> "string", s |-> AnalyzeFailedMessage, cause |-> err]

\* `catch (err) { console.error(..., err); setError("Failed to analyze ...") }`
CatchMessage(err) == JStr(AnalyzeFailedMessage)

\* performAnalysis that clears the flag at the end of its try block only
AnalysisViewAfterWithoutFinally(res, err, outcome) ==
  [result |-> IF AnalysisSucceeded(outcome) THEN outcome.value ELSE res,
   error |-> IF AnalysisSucceeded(outcome) THEN err ELSE CatchMessage(CaughtError(outcome)),
   isAnalyzing |-> ~AnalysisSucceeded(outcome)]

\* result, error and isAnalyzing once performAnalysis has run its try / catch /
\* finally, from their values before and the outcome of the awaited call
AnalysisViewAfter(res, err, outcome) ==
  [result |-> IF AnalysisSucceeded(outcome) THEN outcome.value ELSE res,
   error |-> IF AnalysisSucceeded(outcome) THEN err ELSE CatchMessage(CaughtError(outcome)),
   isAnalyzing |-> FALSE]

\* the parent's history after performAnalysis settled for `base64`
HistoryAfter(h, outcome, base64) ==
  IF AnalysisSucceeded(outcome)
    THEN Append(h, HistoryItem(Len(h) + 1, JStr(base64), outcome.value))
    ELSE h

\* handleFileUpload with a file: a FileReader starts reading it
HandleFileUpload(file) ==
  /\ view = "nutrient-analyzer"
  /\ UploadPanelShown
  /\ userActions < MaxUploads
  /\ reading' = reading \cup {[id |-> userActions + 1, file |-> file]}
  /\ userActions' = userActions + 1
  /\ lastOp' = [op |-> "handleFileUpload", file |-> file]
  /\ UNCHANGED <<view, chatSessions, lastCall, requests, invocations, isAnalyzing, result,
                 currentImage, error, initialData, history, calls, weatherVars>>

\* handleFileUpload when the change event carries no file: nothing happens
HandleFileUploadNoFile ==
  /\ view = "nutrient-analyzer"
  /\ UploadPanelShown
  /\ lastOp' = [op |-> "handleFileUpload.nofile"]
  /\ UNCHANGED <<view, serviceVars, nutrientVars, weatherVars>>

\* reader.onloadend: setCurrentImage, then performAnalysis up to its await
\* (the read succeeds; a failed read, whose reader.result is null, is left out)
OnLoadEnd(r) ==
  /\ view = "nutrient-analyzer"
  /\ r \in reading
  /\ LET base64String == Base64Of(r.file)
     IN  /\ currentImage' = JStr(base64String)
         /\ calls' = calls \cup {[id |-> r.id, base64 |-> base64String]}
         /\ lastOp' = [op |-> "performAnalysis.start", base64 |-> base64String]
  /\ reading' = reading \ {r}
  /\ isAnalyzing' = TRUE
  /\ result' = JNull
  /\ error' = JNull
  /\ requests' = requests + 1
  /\ invocations' = invocations + 1
  /\ UNCHANGED <<view, chatSessions, lastCall, userActions, initialData, history, weatherVars>>

\* performAnalysis from the await on: try / catch / finally
PerformAnalysisSettle(c, reply) ==
  /\ view = "nutrient-analyzer"
  /\ c \in calls
  /\ LET outcome == analyzePlantNutrients(reply)
         after == AnalysisViewAfter(result, error, outcome)
     IN  /\ result' = after.result
         /\ error' = after.error
         /\ isAnalyzing' = after.isAnalyzing
         /\ history' = HistoryAfter(history, outcome, c.base64)
         /\ lastCall' = [fn |-> "analyzePlantNutrients", kind |-> "nutrient",
                         arg |-> c.base64,
                         request |-> AnalysisRequest("nutrient", c.base64),
                         reply |-> reply, outcome |-> outcome]
         /\ lastOp' = [op |-> "performAnalysis.settle"]
  /\ calls' = calls \ {c}
  /\ requests' = requests + RetriesAfter(reply)
  /\ UNCHANGED <<view, chatSessions, invocations, userActions, currentImage, initialData, reading,
                 weatherVars>>

\* a reset that also takes the view out of its analyzing state
ResetAnalysisClearingFlag ==
  /\ view = "nutrient-analyzer"
  /\ Truthy(error) \/ Truthy(result)
  /\ result' = JNull
  /\ error' = JNull
  /\ currentImage' = JNull
  /\ isAnalyzing' = FALSE
  /\ lastOp' = [op |-> "resetAnalysis"]
  /\ UNCHANGED <<view, serviceVars, initialData, history, reading, calls, weatherVars>>

\* resetAnalysis: the button of the error panel and of the result panel
ResetAnalysis ==
  /\ view = "nutrient-analyzer"
  /\ Truthy(error) \/ Truthy(result)
  /\ result' = JNull
  /\ error' = JNull
  /\ currentImage' = JNull
  /\ lastOp' = [op |-> "resetAnalysis"]
  /\ UNCHANGED <<view, serviceVars, isAnalyzing, initialData, history, reading, calls,
                 weatherVars>>

\* the parent passes another initialData; useEffect([initialData]) runs
SetInitialData(d) ==
  /\ view = "nutrient-analyzer"
  /\ d # initialData
  /\ initialData' = d
  /\ result' = IF ShouldRestore(d) THEN d.nutrientData ELSE result
  /\ currentImage' = IF ShouldRestore(d) THEN RestoredImage(d) ELSE currentImage
  /\ lastOp' = [op |-> "useEffect.initialData"]
  /\ UNCHANGED <<view, serviceVars, isAnalyzing, error, history, reading, calls,
                 weatherVars>>

NextNutrient ==
  \/ \E f \in Files : HandleFileUpload(f)
  \/ HandleFileUploadNoFile
  \/ \E r \in reading : OnLoadEnd(r)
  \/ \E c \in calls : \E reply \in NutrientViewReplies : PerformAnalysisSettle(c, reply)
  \/ ResetAnalysis
  \/ \E d \in InitialDataSamples : SetInitialData(d)

(***************************************************************************)
(* Weather (src/components/Sidebar.tsx, lines 171-229 and 262-297).        *)
(***************************************************************************)
ParseErrorMessage == "Could not parse weather data. Please try again."

FetchErrorMessage == "Could not fetch weather data. Please try again."

GeoUnsupportedMessage == "Geolocation is not supported by your browser."

GeoDeniedMessage == "Unable to retrieve your location. Please check browser permissions."

\* controls that stay enabled while loading
ControlsNeverDisabled == FALSE

\* the input and both buttons carry disabled={loading}
ControlsDisabled == loading

\* handleSearch without its guard on the trimmed query
ShouldSearchAlways(query) == TRUE

\* handleSearch goes on to performSearch unless `!city.trim()`
ShouldSearch(query) == Trim(query) # ""

\* performSearch that stores the data and leaves the metadata as it was
SearchViewAfterKeepingMetadata(wd, gm, err, outcome) ==
  LET hasData == ~outcome.threw /\ Truthy(outcome.value.data)
  IN  [weatherData |-> IF hasData THEN outcome.value.data ELSE wd,
       groundingMetadata |-> gm,
       error |-> IF outcome.threw
                   THEN JStr(FetchErrorMessage)
                   ELSE IF hasData THEN err ELSE JStr(ParseErrorMessage),
       loading |-> FALSE]

\* weatherData, groundingMetadata, error and loading once performSearch has run
\* its try / catch / finally, from their values before and the outcome of the
\* awaited call
SearchViewAfter(wd, gm, err, outcome) ==
  LET hasData == ~outcome.threw /\ Truthy(outcome.value.data)
  IN  [weatherData |-> IF hasData THEN outcome.value.data ELSE wd,
       groundingMetadata |-> IF hasData THEN outcome.value.groundingMetadata ELSE gm,
       error |-> IF outcome.threw
                   THEN JStr(FetchErrorMessage)
                   ELSE IF hasData THEN err ELSE JStr(ParseErrorMessage),
       loading |-> FALSE]

\* performSearch up to its await
PerformSearchStart(query) ==
  /\ loading' = TRUE
  /\ weatherData' = JNull
  /\ groundingMetadata' = JNull
  /\ weatherError' = JNull
  /\ weatherCalls' = weatherCalls \cup {[id |-> invocations + 1, query |-> query]}
  /\ requests' = requests + 1
  /\ invocations' = invocations + 1

\* the text input's onChange
SetCity(text) ==
  /\ view = "weather"
  /\ ~ControlsDisabled
  /\ text # city
  /\ city' = text
  /\ lastOp' = [op |-> "setCity"]
  /\ UNCHANGED <<view, serviceVars, nutrientVars, weatherData, groundingMetadata,
                 loading, weatherError, geoSupported, geoPending, weatherCalls>>

\* handleSearch: `if (!city.trim()) return;` then performSearch(city)
HandleSearch ==
  /\ view = "weather"
  /\ ~ControlsDisabled
  /\ lastOp' = [op |-> "handleSearch", query |-> city]
  /\ IF ShouldSearch(city)
       THEN /\ userActions < MaxSearches
            /\ PerformSearchStart(city)
            /\ userActions' = userActions + 1
            /\ UNCHANGED <<view, chatSessions, lastCall, nutrientVars, city, geoSupported, geoPending>>
       ELSE UNCHANGED <<view, serviceVars, nutrientVars, weatherVars>>

\* handleLocationSearch without navigator.geolocation
HandleLocationSearchUnsupported ==
  /\ view = "weather"
  /\ ~ControlsDisabled
  /\ ~geoSupported
  /\ weatherError' = JStr(GeoUnsupportedMessage)
  /\ lastOp' = [op |-> "handleLocationSearch.unsupported"]
  /\ UNCHANGED <<view, serviceVars, nutrientVars, city, weatherData, groundingMetadata,
                 loading, geoSupported, geoPending, weatherCalls>>

\* handleLocationSearch: getCurrentPosition is requested
HandleLocationSearch ==
  /\ view = "weather"
  /\ ~ControlsDisabled
  /\ geoSupported
  /\ userActions < MaxSearches
  /\ loading' = TRUE
  /\ weatherData' = JNull
  /\ weatherError' = JNull
  /\ city' = DetectingLabel
  /\ geoPending' = TRUE
  /\ lastOp' = [op |-> "handleLocationSearch"]
  /\ UNCHANGED <<view, serviceVars, nutrientVars, groundingMetadata, geoSupported,
                 weatherCalls>>

\* getCurrentPosition's success callback
GeolocationSuccess(position) ==
  /\ view = "weather"
  /\ geoPending
  /\ geoPending' = FALSE
  /\ city' = LocationLabel(position)
  /\ PerformSearchStart(LocationQuery(position))
  /\ userActions' = userActions + 1
  /\ lastOp' = [op |-> "geolocation.success"]
  /\ UNCHANGED <<view, chatSessions, lastCall, nutrientVars, geoSupported>>

\* getCurrentPosition's error callback
GeolocationError ==
  /\ view = "weather"
  /\ geoPending
  /\ geoPending' = FALSE
  /\ weatherError' = JStr(GeoDeniedMessage)
  /\ loading' = FALSE
  /\ city' = ""
  /\ lastOp' = [op |-> "geolocation.error"]
  /\ UNCHANGED <<view, serviceVars, nutrientVars, weatherData, groundingMetadata,
                 geoSupported, weatherCalls>>

\* performSearch from the await on: try / catch / finally
PerformSearchSettle(c, reply) ==
  /\ view = "weather"
  /\ c \in weatherCalls
  /\ LET outcome == getWeatherDetails(reply)
         after == SearchViewAfter(weatherData, groundingMetadata, weatherError, outcome)
     IN  /\ weatherData' = after.weatherData
         /\ groundingMetadata' = after.groundingMetadata
         /\ weatherError' = after.error
         /\ loading' = after.loading
         /\ lastCall' = [fn |-> "getWeatherDetails", kind |-> "weather",
                         arg |-> c.query, request |-> AnalysisRequest("weather", c.query),
                         reply |-> reply, outcome |-> outcome]
         /\ lastOp' = [op |-> "performSearch.settle"]
  /\ weatherCalls' = weatherCalls \ {c}
  /\ requests' = requests + RetriesAfter(reply)
  /\ UNCHANGED <<view, chatSessions, invocations, userActions, nutrientVars, city, geoSupported,
                 geoPending>>

(***************************************************************************)
(* What the Weather view renders (src/components/Sidebar.tsx, 300-431).    *)
(* Rendering either completes or throws a TypeError.                       *)
(***************************************************************************)
\* `new URL(uri).hostname`: the host, or a TypeError for a string that is not
\* an absolute URL
URLHostname(uri) ==
  CASE uri = "https://weather.example/kochi" -> [ok |-> TRUE, value |-> "weather.example"]
    [] uri = "https://met.example/delhi" -> [ok |-> TRUE, value |-> "met.example"]
    [] OTHER -> [ok |-> FALSE, error |-> "TypeError: Invalid URL"]

\* `chunk.web?.uri &&`: the chunk yields an anchor
ChunkShown(chunk) == Truthy(Get(Get(chunk, "web"), "uri"))

\* `chunk.web.title || new URL(chunk.web.uri).hostname`
ChunkLabel(chunk) ==
  LET web == Get(chunk, "web")
  IN  IF Truthy(Get(web, "title"))
        THEN [ok |-> TRUE, value |-> Get(web, "title").s]
        ELSE URLHostname(Get(web, "uri").s)

\* the anchors of `groundingMetadata.groundingChunks.map(...)`, in order
SourceAnchors(gm) ==
  IF ~Truthy(Get(gm, "groundingChunks"))
    THEN <<>>
    ELSE LET shown == SelectSeq(Get(gm, "groundingChunks").a, ChunkShown)
         IN  [i \in 1..Len(shown) |->
                [href |-> Get(Get(shown[i], "web"), "uri").s, label |-> ChunkLabel(shown[i])]]

\* the members the weather cards dereference: current.temp.replace,
\* getWeatherIcon(condition).toLowerCase, forecast.map, risks.floodProbability
WeatherCardsRender(wd) ==
  /\ Get(Get(wd, "current"), "temp").type = "string"
  /\ Get(Get(wd, "current"), "condition").type = "string"
  /\ Get(wd, "forecast").type = "array"
  /\ \A i \in 1..Len(Get(wd, "forecast").a) :
       Get(Get(wd, "forecast").a[i], "condition").type = "string"
  /\ Get(wd, "risks").type = "object"

\* the `{weatherData && (...)}` block: nothing, a TypeError, or the cards and
\* the "Verified Sources" anchors
RenderWeather(wd, gm) ==
  IF ~Truthy(wd)
    THEN [threw |-> FALSE, cards |-> FALSE, sources |-> <<>>]
    ELSE IF ~WeatherCardsRender(wd)
           \/ \E i \in 1..Len(SourceAnchors(gm)) : ~SourceAnchors(gm)[i].label.ok
      THEN [threw |-> TRUE]
      ELSE [threw |-> FALSE, cards |-> TRUE,
            sources |-> [i \in 1..Len(SourceAnchors(gm)) |->
                           [href |-> SourceAnchors(gm)[i].href,
                            label |-> SourceAnchors(gm)[i].label.value]]]

NextWeather ==
  \/ \E text \in TypedCities : SetCity(text)
  \/ HandleSearch
  \/ HandleLocationSearchUnsupported
  \/ HandleLocationSearch
  \/ \E position \in Positions : GeolocationSuccess(position)
  \/ GeolocationError
  \/ \E c \in weatherCalls : \E reply \in WeatherReplies : PerformSearchSettle(c, reply)

(***************************************************************************)
(* The other views call the service functions; each call is taken as a     *)
(* whole, from its invocation to its return or throw.                      *)
(***************************************************************************)
CallAnalysis(kind, arg, reply) ==
  /\ view = "other"
  /\ invocations < MaxInvocations
  /\ lastCall' = [fn |-> FnName(kind), kind |-> kind, arg |-> arg,
                  request |-> AnalysisRequest(kind, arg),
                  reply |-> reply, outcome |-> Analyze(kind, reply)]
  /\ requests' = requests + 1 + RetriesAfter(reply)
  /\ invocations' = invocations + 1
  /\ userActions' = userActions + 1
  /\ lastOp' = [op |-> "call"]
  /\ UNCHANGED <<view, chatSessions, nutrientVars, weatherVars>>

CallChat(fn, chatHistory, newMessage, reply) ==
  /\ view = "other"
  /\ invocations < MaxInvocations
  /\ lastCall' = [fn |-> fn, history |-> chatHistory, newMessage |-> newMessage,
                  request |-> ChatRequest(fn, chatHistory, newMessage, chatSessions.last),
                  reply |-> reply, outcome |-> ReturnText(reply)]
  /\ chatSessions' =
       [created |-> chatSessions.created + 1,
        last |-> SessionAfter(ChatSessionFor(fn, chatSessions.last), newMessage, reply)]
  /\ requests' = requests + 1 + RetriesAfter(reply)
  /\ invocations' = invocations + 1
  /\ userActions' = userActions + 1
  /\ lastOp' = [op |-> "chat"]
  /\ UNCHANGED <<view, nutrientVars, weatherVars>>

CallTranslate(text, targetLanguage, reply) ==
  /\ view = "other"
  /\ invocations < MaxInvocations
  /\ lastCall' = [fn |-> "translateText", text |-> text,
                  targetLanguage |-> targetLanguage,
                  request |-> TranslateRequest(text, targetLanguage),
                  reply |-> reply, outcome |-> ReturnText(reply)]
  /\ requests' = requests + 1 + RetriesAfter(reply)
  /\ invocations' = invocations + 1
  /\ userActions' = userActions + 1
  /\ lastOp' = [op |-> "call"]
  /\ UNCHANGED <<view, chatSessions, nutrientVars, weatherVars>>

NextService ==
  \/ \E kind \in ImageKinds : \E arg \in Base64Images : \E reply \in DirectReplies(kind) :
       CallAnalysis(kind, arg, reply)
  \/ \E arg \in {"Kochi"} : \E reply \in WeatherReplies : CallAnalysis("weather", arg, reply)
  \/ \E fn \in ChatFns : \E h \in ChatHistories : \E m \in ChatMessages :
       \E reply \in ChatReplies : CallChat(fn, h, m, reply)
  \/ \E text \in TranslateTexts : \E lang \in TargetLanguages : \E reply \in ChatReplies :
       CallTranslate(text, lang, reply)

(***************************************************************************)
(* The specification.  One view is mounted throughout a behaviour.         *)
(***************************************************************************)
Init ==
  /\ view \in Views
  /\ lastCall = [fn |-> "none"]
  /\ requests = 0
  /\ invocations = 0
  /\ userActions = 0
  /\ chatSessions = [created |-> 0, last |-> NoSession]
  /\ lastOp = [op |-> "mount"]
  /\ isAnalyzing = FALSE
  /\ error = JNull
  /\ initialData \in (IF view = "nutrient-analyzer" THEN InitialDataSamples ELSE {JNull})
  /\ result = IF ShouldRestore(initialData) THEN initialData.nutrientData ELSE JNull
  /\ currentImage = IF ShouldRestore(initialData) THEN RestoredImage(initialData) ELSE JNull
  /\ history = <<>>
  /\ reading = {}
  /\ calls = {}
  /\ city = ""
  /\ weatherData = JNull
  /\ groundingMetadata = JNull
  /\ loading = FALSE
  /\ weatherError = JNull
  /\ geoSupported \in (IF view = "weather" THEN BOOLEAN ELSE {TRUE})
  /\ geoPending = FALSE
  /\ weatherCalls = {}

Next == NextNutrient \/ NextWeather \/ NextService

Spec == Init /\ [][Next]_vars

\* the same, with the initialData prop left as it was at mount
NextFixedInitialData ==
  \/ \E f \in Files : HandleFileUpload(f)
  \/ HandleFileUploadNoFile
  \/ \E r \in reading : OnLoadEnd(r)
  \/ \E c \in calls : \E reply \in NutrientViewReplies : PerformAnalysisSettle(c, reply)
  \/ ResetAnalysis
  \/ NextWeather
  \/ NextService

SpecFixedInitialData == Init /\ [][NextFixedInitialData]_vars

\* The same, where the environment answers: a FileReader fires onloadend, the
\* gateway resolves or rejects every call made to it, and the browser runs one
\* of the two callbacks of getCurrentPosition.  Nothing in the code bounds the
\* wait for any of them.
FileReaderAnswers == \E r \in reading : OnLoadEnd(r)

GatewayAnswersAnalysis ==
  \E c \in calls : \E reply \in NutrientViewReplies : PerformAnalysisSettle(c, reply)

GatewayAnswersSearch ==
  \E c \in weatherCalls : \E reply \in WeatherReplies : PerformSearchSettle(c, reply)

GeolocationAnswers ==
  (\E position \in Positions : GeolocationSuccess(position)) \/ GeolocationError

SpecLive ==
  /\ SpecFixedInitialData
  /\ WF_vars(FileReaderAnswers)
  /\ WF_vars(GatewayAnswersAnalysis)
  /\ WF_vars(GatewayAnswersSearch)
  /\ WF_vars(GeolocationAnswers)

(***************************************************************************)
(* Vocabulary of the claims.                                               *)
(***************************************************************************)
AnalysisFns == {FnName(k) : k \in AnalysisKinds}

IsAnalysisCall == lastCall.fn \in AnalysisFns

IsChatCall == lastCall.fn \in ChatFns

\* schema conformance: an object holding every required field of the kind
Conforms(kind, v) == v.type = "object" /\ RequiredFields(kind) \subseteq Keys(v)

\* what the caller receives as the analysis result (getWeatherDetails wraps it)
ResultValue(kind, outcome) ==
  IF kind = "weather" THEN outcome.value.data ELSE outcome.value

\* the caller holds a result object
ResultHanded(kind, outcome) == ~outcome.threw /\ ResultValue(kind, outcome) # JNull

\* the gateway's text: absent or empty, not JSON, JSON
EmptyPayload(reply) == reply.status = "resolved" /\ ~Truthy(reply.text)

InvalidText(reply) ==
  reply.status = "resolved" /\ Truthy(reply.text) /\ ~JSONParse(reply.text.s).ok

ValidText(reply) ==
  reply.status = "resolved" /\ Truthy(reply.text) /\ JSONParse(reply.text.s).ok

\* the two failures as a caller can tell them apart: the image analyses throw
\* different errors; getWeatherDetails throws for the one and returns data = null
\* for the other
ParseFailure(kind, outcome) ==
  IF kind = "weather"
    THEN ~outcome.threw /\ outcome.value.data = JNull
    ELSE outcome.threw /\ outcome.error = "Invalid response format from AI"

RequestFailure(kind, outcome) == outcome.threw /\ ~ParseFailure(kind, outcome)

(***************************************************************************)
(* C1.  An analysis function hands its caller a result only when the       *)
(* gateway text is JSON holding every required field of the kind's schema; *)
(* a reply that is JSON but not conformant fails with a ParseFailure.      *)
(* The code returns whatever JSON.parse yields, so this is violated.       *)
(***************************************************************************)
C1_OnlyConformantResults ==
  IsAnalysisCall =>
    /\ ResultHanded(lastCall.kind, lastCall.outcome) =>
         Conforms(lastCall.kind, ResultValue(lastCall.kind, lastCall.outcome))
    /\ (ValidText(lastCall.reply)
        /\ ~Conforms(lastCall.kind, JSONParse(lastCall.reply.text.s).value)) =>
         ParseFailure(lastCall.kind, lastCall.outcome)

\* the function-level part of C2, on the invocation that settled last
C2_FunctionLevel ==
  (IsAnalysisCall /\ InvalidText(lastCall.reply)) =>
    /\ ParseFailure(lastCall.kind, lastCall.outcome)
    /\ ~ResultHanded(lastCall.kind, lastCall.outcome)

(***************************************************************************)
(* C2.  For every analysis kind, text that is not JSON yields a            *)
(* ParseFailure and no result object; the view's settle step for such a    *)
(* reply sets no result state, appends no history item, and shows the      *)
(* error.                                                                  *)
(***************************************************************************)
C2_InvalidTextIsParseFailure ==
  [][/\ C2_FunctionLevel'
     /\ (lastOp'.op = "performAnalysis.settle" /\ InvalidText(lastCall'.reply)) =>
          /\ result' = result
          /\ history' = history
          /\ error' = JStr(AnalyzeFailedMessage)
     /\ (lastOp'.op = "performSearch.settle" /\ InvalidText(lastCall'.reply)) =>
          /\ weatherData' = JNull
          /\ groundingMetadata' = JNull
          /\ weatherError' = JStr(ParseErrorMessage)]_vars

C2_Witness ==
  /\ lastOp.op = "performAnalysis.settle"
  /\ InvalidText(lastCall.reply)
  /\ lastCall.outcome.threw
  /\ result = JNull
  /\ history = <<>>

(***************************************************************************)
(* C3.  For every analysis kind, weather included, an empty payload fails  *)
(* with a RequestFailure, told apart from a ParseFailure, and yields no    *)
(* result.  getWeatherDetails replaces an empty payload by "{}" and        *)
(* returns the empty object as data, so this is violated.                  *)
(***************************************************************************)
C3_EmptyPayloadIsRequestFailure ==
  (IsAnalysisCall /\ EmptyPayload(lastCall.reply)) =>
    /\ RequestFailure(lastCall.kind, lastCall.outcome)
    /\ ~ResultHanded(lastCall.kind, lastCall.outcome)

(***************************************************************************)
(* C4.  After a gateway rejection the invoking view is in its error        *)
(* state: error message set, loading flag cleared, no result; the failure  *)
(* is a RequestFailure, not a ParseFailure.  With two overlapping uploads  *)
(* the result of the other analysis stays beside the error, so this is     *)
(* violated.                                                               *)
(***************************************************************************)
C4_RejectionEndsInErrorState ==
  /\ (IsAnalysisCall /\ lastCall.reply.status = "rejected") =>
       RequestFailure(lastCall.kind, lastCall.outcome)
  /\ (lastOp.op = "performAnalysis.settle" /\ lastCall.reply.status = "rejected") =>
       /\ Truthy(error)
       /\ ~isAnalyzing
       /\ result = JNull
  /\ (lastOp.op = "performSearch.settle" /\ lastCall.reply.status = "rejected") =>
       /\ Truthy(weatherError)
       /\ ~loading
       /\ weatherData = JNull

\* the two outcomes C5 tells apart, on the invocation that settled last
UsableResult ==
  /\ ~lastCall.outcome.threw
  /\ IF IsAnalysisCall
       THEN Conforms(lastCall.kind, ResultValue(lastCall.kind, lastCall.outcome))
       ELSE Truthy(lastCall.outcome.value)

FailureIndicator ==
  \/ lastCall.outcome.threw
  \/ IF IsAnalysisCall
       THEN ~Truthy(ResultValue(lastCall.kind, lastCall.outcome))
       ELSE ~Truthy(lastCall.outcome.value)

(***************************************************************************)
(* C5.  Every analysis and chat function yields exactly one of a usable    *)
(* result and a caller-visible failure indicator.  A usable result is a    *)
(* conformant object (analysis) or a non-empty text (chat); a failure      *)
(* indicator is a throw or a null / undefined / empty return.  An object   *)
(* that misses required fields is neither, so this is violated.            *)
(***************************************************************************)
C5_ExactlyOneOfResultOrFailure ==
  (IsAnalysisCall \/ IsChatCall) => (UsableResult /\ ~FailureIndicator) \/ (~UsableResult /\ FailureIndicator)

\* an analysis that succeeds: JSON text whose value is not empty
ExpectedSuccess(reply) == ValidText(reply) /\ Truthy(JSONParse(reply.text.s).value)

(***************************************************************************)
(* C6.  NutrientAnalyzer appends a history item exactly when an analysis   *)
(* succeeds (the gateway resolved with JSON text whose value is not        *)
(* empty), once, and never for a failed one or in any other step; the item *)
(* carries the data set as the result and the image of that analysis.      *)
(***************************************************************************)
C6_HistoryOnSuccessOnly ==
  [][IF lastOp'.op = "performAnalysis.settle" /\ ExpectedSuccess(lastCall'.reply)
       THEN /\ Len(history') = Len(history) + 1
            /\ SubSeq(history', 1, Len(history)) = history
            /\ LET item == history'[Len(history')]
               IN  /\ item.type = "nutrient-analysis"
                   /\ item.nutrientData = JSONParse(lastCall'.reply.text.s).value
                   /\ item.nutrientData = result'
                   /\ item.imageUrl = JStr(lastCall'.arg)
                   /\ \A i \in 1..Len(history) : history[i].id # item.id
       ELSE history' = history]_vars

C6_Witness ==
  /\ Len(history) = 1
  /\ lastOp.op = "performAnalysis.settle"
  /\ ~ExpectedSuccess(lastCall.reply)
  /\ calls = {}

(***************************************************************************)
(* C7.  A chat turn sends the prior turns passed by the caller, in order,  *)
(* then the new user message, with the persona's system instruction.  The  *)
(* chat functions never read their history argument, so this is violated.  *)
(***************************************************************************)
C7_ChatForwardsHistory ==
  IsChatCall =>
    /\ lastCall.request.contents =
         lastCall.history \o <<Turn("user", lastCall.newMessage)>>
    /\ lastCall.request.systemInstruction = PersonaInstruction(lastCall.fn)

\* the steps that handle an input failure of the Weather view
EmptyQueryStep == lastOp'.op = "handleSearch" /\ Trim(lastOp'.query) = ""

GeoUnsupportedStep == lastOp'.op = "handleLocationSearch.unsupported"

GeoFailedStep == lastOp'.op = "geolocation.error"

NoGatewayCall ==
  /\ requests' = requests
  /\ invocations' = invocations
  /\ weatherCalls' = weatherCalls

(***************************************************************************)
(* C8.  Input failures of the Weather view.  As claimed: an empty or       *)
(* blank query, an unsupported geolocation API and a failed geolocation    *)
(* request each issue no gateway call and leave an error message shown     *)
(* with loading cleared.                                                   *)
(***************************************************************************)
C8_InputFailuresShowError ==
  [][(EmptyQueryStep \/ GeoUnsupportedStep \/ GeoFailedStep) =>
       /\ NoGatewayCall
       /\ Truthy(weatherError')
       /\ ~loading']_vars

(***************************************************************************)
(* C8, amended.  Each of the three issues no gateway call and leaves       *)
(* loading false; the two geolocation failures set their error message;    *)
(* an empty or blank query is dropped silently, no state of the view       *)
(* changes and no error message is set for it.                             *)
(***************************************************************************)
C8_InputFailuresAmended ==
  [][/\ (EmptyQueryStep \/ GeoUnsupportedStep \/ GeoFailedStep) =>
          (NoGatewayCall /\ ~loading')
     /\ GeoUnsupportedStep => weatherError' = JStr(GeoUnsupportedMessage)
     /\ GeoFailedStep => weatherError' = JStr(GeoDeniedMessage)
     /\ EmptyQueryStep => UNCHANGED weatherVars]_vars

C8_Witness ==
  /\ lastOp.op = "handleSearch"
  /\ Trim(lastOp.query) = ""
  /\ weatherError = JNull
  /\ requests = 0

(***************************************************************************)
(* C9.  Every invocation of a service function issues exactly one          *)
(* outbound request, failed or not, and nothing re-issues a request: the   *)
(* requests equal the invocations and never exceed the user actions that   *)
(* started an analysis.                                                    *)
(***************************************************************************)
C9_AtMostOnce ==
  /\ requests = invocations
  /\ requests <= userActions

C9_Witness ==
  /\ requests = 2
  /\ lastCall.fn # "none"
  /\ lastCall.outcome.threw
  /\ calls = {}
  /\ weatherCalls = {}

(***************************************************************************)
(* C10.  No user action has more than one gateway call outstanding; in the *)
(* Weather view at most one of a getWeatherDetails call and a geolocation  *)
(* lookup is pending, and loading is true while it is.                     *)
(***************************************************************************)
C10_OneOutstandingCall ==
  /\ \A c1, c2 \in calls : c1.id = c2.id => c1 = c2
  /\ Cardinality(calls) + Cardinality(reading) <= userActions
  /\ Cardinality(weatherCalls) + (IF geoPending THEN 1 ELSE 0) <= 1
  /\ (weatherCalls # {} \/ geoPending) => loading

C10_Witness ==
  /\ lastOp.op = "geolocation.success"
  /\ Cardinality(weatherCalls) = 1
  /\ loading
  /\ requests = 2

\* gateway texts that are not JSON, some of them carrying what a user should
\* never be shown
OffendingTexts ==
  {TruncatedText, ProseText, "<script>alert(1)</script>", AnalyzeFailedMessage}

OffendingReplies ==
  {Resolved(JStr(t), gm) : t \in OffendingTexts, gm \in {JUndefined, GroundingA}}

\* what the NutrientAnalyzer view shows of an analysis
NutrientDisplayed == [result |-> result, error |-> error, isAnalyzing |-> isAnalyzing]

\* what the Weather view shows of a search
WeatherDisplayed ==
  [weatherData |-> weatherData, groundingMetadata |-> groundingMetadata,
   error |-> weatherError, loading |-> loading]

(***************************************************************************)
(* C11.  A ParseFailure reaches the user only as a fixed message: when a   *)
(* call settles with text that is not JSON, what the view shows afterwards *)
(* (result, error string, loading flag) is the same for every other        *)
(* offending text the gateway could have sent instead, and in              *)
(* NutrientAnalyzer also the same as for any failure of the call; the      *)
(* message is the view's fixed one.                                        *)
(***************************************************************************)
C11_ParseFailureShowsFixedMessage ==
  [][/\ (lastOp'.op = "performAnalysis.settle" /\ InvalidText(lastCall'.reply)) =>
          /\ error' = JStr(AnalyzeFailedMessage)
          /\ \A other \in OffendingReplies \cup {Rejected, Resolved(JUndefined, JUndefined)} :
               AnalysisViewAfter(result, error, analyzePlantNutrients(other))
                 = NutrientDisplayed'
     /\ (lastOp'.op = "performSearch.settle" /\ InvalidText(lastCall'.reply)) =>
          /\ weatherError' = JStr(ParseErrorMessage)
          /\ \A other \in OffendingReplies :
               SearchViewAfter(weatherData, groundingMetadata, weatherError,
                               getWeatherDetails(other))
                 = WeatherDisplayed']_vars

C11_Witness ==
  /\ lastOp.op = "performAnalysis.settle"
  /\ lastCall.reply.status = "resolved"
  /\ lastCall.reply.text = JStr(ProseText)
  /\ lastCall.outcome.console # <<>>
  /\ error = JStr(AnalyzeFailedMessage)
  /\ ~isAnalyzing

\* a chunk has a link: web.uri is present
HasLink(chunk) == "uri" \in Keys(Get(chunk, "web"))

\* the links of the chunks that have one, in the order of the chunks
RECURSIVE LinksOf(_)
LinksOf(chunks) ==
  IF chunks = <<>>
    THEN <<>>
    ELSE (IF HasLink(Head(chunks))
            THEN <<Get(Get(Head(chunks), "web"), "uri").s>>
            ELSE <<>>) \o LinksOf(Tail(chunks))

\* the metadata has chunks with a link and chunks without
MixedChunks(gm) ==
  /\ Get(gm, "groundingChunks").type = "array"
  /\ \E i \in 1..Len(Get(gm, "groundingChunks").a) : HasLink(Get(gm, "groundingChunks").a[i])
  /\ \E i \in 1..Len(Get(gm, "groundingChunks").a) : ~HasLink(Get(gm, "groundingChunks").a[i])

\* the Weather view holds the data and the metadata of a conformant reply
WeatherResultHeld ==
  /\ view = "weather"
  /\ Conforms("weather", weatherData)

(***************************************************************************)
(* C12.  When the Weather view holds a weather result whose metadata has   *)
(* chunks with and without a link, the source list it presents is exactly  *)
(* the links of the chunks that have one, in their order.  The filter      *)
(* keeps exactly those, but deriving the label of a kept chunk can throw   *)
(* (C16), and then no list is presented, so this is violated.              *)
(***************************************************************************)
C12_SourcesAreTheLinkedChunks ==
  (WeatherResultHeld /\ MixedChunks(groundingMetadata)) =>
    LET shown == RenderWeather(weatherData, groundingMetadata)
    IN  /\ ~shown.threw
        /\ [i \in 1..Len(shown.sources) |-> shown.sources[i].href]
             = LinksOf(Get(groundingMetadata, "groundingChunks").a)

\* the invocation that settled last was analyzePlantNutrients answered `text`
NutrientAnswered(text) ==
  /\ lastCall.fn = "analyzePlantNutrients"
  /\ lastCall.reply = Resolved(JStr(text), JUndefined)

\* a member of the record that invocation returned
Returned(field) == Get(lastCall.outcome.value, field)

(***************************************************************************)
(* C13.  The parser passes field values through unchanged: a deficiencies  *)
(* sequence ["None"] is returned as exactly ["None"], and a healthScore is *)
(* returned as the same integer, inside 0..100 or not (45, 83, 150, -5),   *)
(* with no failure raised.                                                 *)
(***************************************************************************)
C13_ValuesPassThrough ==
  /\ NutrientAnswered(NutrientNoneText) =>
       /\ ~lastCall.outcome.threw
       /\ Returned("healthScore") = JNum(83)
       /\ Returned("deficiencies") = JArr(<<JStr("None")>>)
       /\ Returned("symptoms") = JArr(<<>>)
  /\ NutrientAnswered(NutrientHighText) =>
       /\ ~lastCall.outcome.threw
       /\ Returned("healthScore") = JNum(150)
       /\ Returned("deficiencies") = JArr(<<JStr("None")>>)
  /\ NutrientAnswered(NutrientNegativeText) =>
       /\ ~lastCall.outcome.threw
       /\ Returned("healthScore") = JNum(-5)
       /\ Returned("deficiencies") = JArr(<<JStr("Nitrogen"), JStr("None")>>)
  /\ NutrientAnswered(NutrientFullText) =>
       /\ ~lastCall.outcome.threw
       /\ Returned("healthScore") = JNum(45)
       /\ Returned("deficiencies") = JArr(<<JStr("Nitrogen")>>)

C13_Witness ==
  /\ NutrientAnswered(NutrientHighText)
  /\ Returned("healthScore") = JNum(150)
  /\ Returned("deficiencies") = JArr(<<JStr("None")>>)
  /\ invocations = 2

\* the gateway answered with JSON text of the kind's documented shape
ConformantReply(kind, reply) ==
  ValidText(reply) /\ Conforms(kind, JSONParse(reply.text.s).value)

(***************************************************************************)
(* C14.  For each of the five analysis kinds, a reply that is a valid      *)
(* example of the kind's documented JSON shape yields a result record in   *)
(* which every documented field holds the value of the reply, with neither *)
(* a ParseFailure nor a RequestFailure; the view that made the call then   *)
(* holds that record.  The end-to-end nutrient scenario gives healthScore  *)
(* 45 and deficiencies ["Nitrogen"].                                       *)
(***************************************************************************)
C14_ValidReplyYieldsFullRecord ==
  /\ (IsAnalysisCall /\ ConformantReply(lastCall.kind, lastCall.reply)) =>
       /\ ~lastCall.outcome.threw
       /\ ~ParseFailure(lastCall.kind, lastCall.outcome)
       /\ ~RequestFailure(lastCall.kind, lastCall.outcome)
       /\ \A f \in RequiredFields(lastCall.kind) :
            /\ Get(ResultValue(lastCall.kind, lastCall.outcome), f) # JUndefined
            /\ Get(ResultValue(lastCall.kind, lastCall.outcome), f)
                 = Get(ParsedValue(lastCall.reply.text.s), f)
  /\ NutrientAnswered(NutrientFullText) =>
       /\ Returned("healthScore") = JNum(45)
       /\ Returned("deficiencies") = JArr(<<JStr("Nitrogen")>>)
       /\ Returned("symptoms") = JArr(<<JStr("yellowing leaves")>>)
       /\ Returned("recommendations") = JArr(<<JStr("apply nitrogen-rich fertilizer")>>)
  /\ (lastOp.op = "performAnalysis.settle"
      /\ ConformantReply("nutrient", lastCall.reply)) =>
       result = ParsedValue(lastCall.reply.text.s)
  /\ (lastOp.op = "performSearch.settle"
      /\ ConformantReply("weather", lastCall.reply)) =>
       /\ weatherData = ParsedValue(lastCall.reply.text.s)
       /\ weatherError = JNull

C14_Witness ==
  /\ lastOp.op = "performSearch.settle"
  /\ lastCall.reply.status = "resolved"
  /\ lastCall.reply.text = JStr(WeatherOtherText)
  /\ Get(Get(weatherData, "current"), "temp") = JStr("40C")
  /\ Len(Get(weatherData, "forecast").a) = 3

\* the sessions an earlier chat invocation can have left behind
PriorSessions ==
  {NoSession} \cup
  {SessionAfter(ChatCreate(PersonaInstruction(fn)), m, reply) :
     fn \in ChatFns, m \in ChatMessages, reply \in ChatReplies}

(***************************************************************************)
(* C15.  Every invocation of a chat function sends through a session it    *)
(* created itself, with no turn of an earlier invocation in it; the        *)
(* request depends on the arguments only: it is the request the same       *)
(* arguments send after any other earlier invocation, or after none.       *)
(***************************************************************************)
C15_FreshSessionPerInvocation ==
  [][lastOp'.op = "chat" =>
       /\ lastCall'.request.contents = <<Turn("user", lastCall'.newMessage)>>
       /\ lastCall'.request.systemInstruction = PersonaInstruction(lastCall'.fn)
       /\ \A prior \in PriorSessions :
            ChatRequest(lastCall'.fn, lastCall'.history, lastCall'.newMessage, prior)
              = lastCall'.request
       /\ chatSessions.last \in PriorSessions
       /\ chatSessions'.created = chatSessions.created + 1
       /\ Len(chatSessions'.last.history) <= 2]_vars

C15_Witness ==
  /\ lastOp.op = "chat"
  /\ chatSessions.created = 3
  /\ Len(chatSessions.last.history) = 2
  /\ lastCall.request.contents = <<Turn("user", lastCall.newMessage)>>

\* the chunks of the held metadata that pass the filter of the source list
ShownChunks ==
  IF Truthy(Get(groundingMetadata, "groundingChunks"))
    THEN SelectSeq(Get(groundingMetadata, "groundingChunks").a, ChunkShown)
    ELSE <<>>

\* the host component of the sample links
HostOf(uri) ==
  CASE uri = "https://weather.example/kochi" -> "weather.example"
    [] uri = "https://met.example/delhi" -> "met.example"
    [] uri = "met.example/delhi" -> "met.example"

(***************************************************************************)
(* C16.  For every citation the Weather view displays, the label is the    *)
(* title when there is one and otherwise the host of the link, and         *)
(* producing it does not fail.  `new URL(uri)` throws for a link that is   *)
(* not an absolute URL, and the filter lets such a link through, so this   *)
(* is violated.                                                            *)
(***************************************************************************)
C16_LabelFromTitleOrHost ==
  WeatherResultHeld =>
    \A i \in 1..Len(ShownChunks) :
      LET web == Get(ShownChunks[i], "web")
          label == ChunkLabel(ShownChunks[i])
      IN  /\ label.ok
          /\ "title" \in Keys(web) => label.value = Get(web, "title").s
          /\ "title" \notin Keys(web) => label.value = HostOf(Get(web, "uri").s)

(***************************************************************************)
(* C17.  The loading flag is cleared once the call settles: the step in    *)
(* which a performAnalysis settles, resolved or rejected, leaves           *)
(* isAnalyzing false, the step in which a performSearch settles and the    *)
(* step of a geolocation failure leave loading false; so, where every call *)
(* and every geolocation lookup is answered, a flag that is true becomes   *)
(* false again.  Nothing else clears a flag that a call set: no timeout.   *)
(***************************************************************************)
C17_FlagClearedOnSettle ==
  /\ [][/\ lastOp'.op = "performAnalysis.settle" => ~isAnalyzing'
        /\ lastOp'.op \in {"performSearch.settle", "geolocation.error"} => ~loading'
        /\ (isAnalyzing /\ ~isAnalyzing') => lastOp'.op = "performAnalysis.settle"
        /\ (loading /\ ~loading') =>
             lastOp'.op \in {"performSearch.settle", "geolocation.error"}]_vars
  /\ isAnalyzing ~> ~isAnalyzing
  /\ loading ~> ~loading

C17_Witness ==
  /\ lastOp.op = "performAnalysis.settle"
  /\ lastCall.reply.status = "rejected"
  /\ ~isAnalyzing
  /\ calls = {}
  /\ reading = {}
  /\ userActions = 2

(***************************************************************************)
(* C18.  In NutrientAnalyzer, after any sequence of file selections,       *)
(* file-read completions, analysis completions and resets, result and      *)
(* error are never both non-null.  Two files selected before the first     *)
(* read completes start two analyses; when one succeeds and the other      *)
(* fails afterwards, both are set, so this is violated.                    *)
(***************************************************************************)
C18_ResultAndErrorExclusive ==
  view = "nutrient-analyzer" => ~(result # JNull /\ error # JNull)

(***************************************************************************)
(* C19.  In NutrientAnalyzer isAnalyzing is true whenever an               *)
(* analyzePlantNutrients call is outstanding, the upload control is not    *)
(* rendered while one is, and the result shown by a completed analysis     *)
(* goes with the currentImage of the same upload.  With two overlapping    *)
(* analyses the first completion clears isAnalyzing while the second call  *)
(* is outstanding, and currentImage is the second upload's, so this is     *)
(* violated.                                                               *)
(***************************************************************************)
C19_AnalyzingWhileOutstanding ==
  view = "nutrient-analyzer" =>
    /\ calls # {} => isAnalyzing
    /\ calls # {} => ~UploadPanelShown
    /\ (lastOp.op = "performAnalysis.settle" /\ result # JNull) =>
         \E i \in 1..Len(history) :
           /\ history[i].nutrientData = result
           /\ history[i].imageUrl = currentImage

(***************************************************************************)
(* C20.  In the Weather view, whenever weatherData is non-null it is the   *)
(* data of the getWeatherDetails call that settled last and                *)
(* groundingMetadata is the metadata of that same call; while weatherData  *)
(* is null no source is displayed, whatever metadata is still held.        *)
(***************************************************************************)
C20_MetadataOfTheSameResponse ==
  view = "weather" =>
    /\ weatherData # JNull =>
         /\ lastCall.fn = "getWeatherDetails"
         /\ ~lastCall.outcome.threw
         /\ weatherData = lastCall.outcome.value.data
         /\ groundingMetadata = lastCall.outcome.value.groundingMetadata
         /\ groundingMetadata = lastCall.reply.groundingMetadata
    /\ weatherData = JNull =>
         /\ ~RenderWeather(weatherData, groundingMetadata).threw
         /\ RenderWeather(weatherData, groundingMetadata).sources = <<>>

C20_Witness ==
  /\ view = "weather"
  /\ userActions = 2
  /\ lastOp.op = "performSearch.settle"
  /\ weatherData = ParsedValue(WeatherFullText)
  /\ groundingMetadata = JUndefined
  /\ city = "Current Location (9.93, 76.27)"

(***************************************************************************)
(* C21.  resetAnalysis sets result, error and currentImage to null and     *)
(* changes nothing else: isAnalyzing, the history, the outstanding calls   *)
(* and file reads, initialData and the request counters stay as they were; *)
(* when no call is outstanding the view is then in its initial upload      *)
(* state, with the upload control rendered.                                *)
(***************************************************************************)
C21_ResetClearsThreeFieldsOnly ==
  [][lastOp'.op = "resetAnalysis" =>
       /\ result' = JNull
       /\ error' = JNull
       /\ currentImage' = JNull
       /\ isAnalyzing' = isAnalyzing
       /\ history' = history
       /\ calls' = calls
       /\ reading' = reading
       /\ initialData' = initialData
       /\ requests' = requests
       /\ invocations' = invocations
       /\ lastCall' = lastCall
       /\ UNCHANGED weatherVars
       /\ calls = {} => (~isAnalyzing' /\ UploadPanelShown')]_vars

C21_Witness ==
  /\ lastOp.op = "resetAnalysis"
  /\ isAnalyzing
  /\ calls # {}
  /\ Len(history) = 1
  /\ result = JNull
  /\ currentImage = JNull

\* initialData is a history item of a nutrient analysis that has its data
RestorableItem(d) ==
  /\ d # JNull
  /\ d.type = "nutrient-analysis"
  /\ d.nutrientData \notin {JNull, JUndefined}

\* the image of a history item, or null when it has none
ImageOrNull(d) == IF d.imageUrl \in {JNull, JUndefined, JStr("")} THEN JNull ELSE d.imageUrl

(***************************************************************************)
(* C22.  Restoring from history in NutrientAnalyzer, at mount and whenever *)
(* initialData changes: for a history item of type 'nutrient-analysis'     *)
(* that has nutrientData, result becomes that data and currentImage its    *)
(* image, or null when it has none; for any other initialData result and   *)
(* currentImage are left as they were (null at mount); in neither case is  *)
(* a gateway call issued or a history item appended.                       *)
(***************************************************************************)
C22_RestoreFromHistory ==
  /\ (view = "nutrient-analyzer" /\ lastOp.op = "mount") =>
       /\ result = IF RestorableItem(initialData) THEN initialData.nutrientData ELSE JNull
       /\ currentImage = IF RestorableItem(initialData) THEN ImageOrNull(initialData) ELSE JNull
       /\ history = <<>>
       /\ requests = 0
  /\ [][lastOp'.op = "useEffect.initialData" =>
          /\ IF RestorableItem(initialData')
               THEN /\ result' = initialData'.nutrientData
                    /\ currentImage' = ImageOrNull(initialData')
               ELSE /\ result' = result
                    /\ currentImage' = currentImage
          /\ history' = history
          /\ requests' = requests
          /\ invocations' = invocations
          /\ calls' = calls
          /\ reading' = reading]_vars

C22_Witness ==
  /\ lastOp.op = "useEffect.initialData"
  /\ RestorableItem(initialData)
  /\ initialData.imageUrl = JUndefined
  /\ result = ParsedValue(NutrientPartialText)
  /\ currentImage = JNull
  /\ Len(history) = 1
  /\ requests = 1

====
